---- MODULE Spec2Model ----
(***************************************************************************)
(* Model of the browser-use E2E helpers of scott-cc:                       *)
(*   conftest.py      - build_sensitive_data (credential resolver) and the *)
(*                      browser / browser_with_profile fixtures            *)
(*   setup_profile.py - main, list_profiles, setup_profile                 *)
(*                                                                         *)
(* Encoding of text.  An environment key "P_S" is held as the pair <<P,S>> *)
(* of the text before its last underscore and the text after it, so that   *)
(* key.endswith('_USER') is S = "USER" and key.rsplit('_', 1)[0] is P.     *)
(* A placeholder f'{p}_user' is the pair <<p, "user">>.  An optional value *)
(* (os.getenv, dict.get) is <<>> for None and <<v>> for the string v.      *)
(***************************************************************************)
EXTENDS Integers, Sequences, FiniteSets, TLC

VARIABLES
    environ,             \* os.environ: sequence of <<key, value>>, in enumeration order
    pc,                  \* position of build_sensitive_data
    idx,                 \* position of `for key in os.environ`
    credentials,         \* local dict: domain -> (placeholder -> value)
    processed_prefixes,  \* local set
    result,              \* the returned mapping
    fs,                  \* the file system under the home directory: set of <<path, kind>>
    ppc,                 \* position of the running command or test ("idle": none)
    url,                 \* setup_profile's parameter
    profile_name,        \* setup_profile's parameter / request.param
    sessions,            \* every Browser(...) made so far, in order
    browser,             \* the running operation's `browser` (index in sessions, 0: none)
    calls,               \* calls the running operation has made on its collaborators
    output,              \* lines printed by the running (or last) command
    outcome              \* how the last command or test ended

pvars == <<fs, ppc, url, profile_name, sessions, browser, calls, output, outcome>>

vars == <<environ, pc, idx, credentials, processed_prefixes, result, pvars>>

(* ----------------------------- bounds ------------------------------- *)
\* number of variables in the process environment
MaxEnv == 5

(* --------------------- inputs of the resolver ----------------------- *)
\* Prefixes the environment may use: two table entries that share a domain,
\* and one spelling that the table does not know and that lowercases to the
\* same text as GMAIL.
PrefixSet == {"GMAIL", "GOOGLE", "Gmail"}
IdentityVals == {"", "alice", "bob"}
PassVals == {"", "pw"}
DomainVals == {"", "https://*.google.com", "https://myapp.test"}

Keys ==
    {<<"GMAIL", "USER">>, <<"GMAIL", "EMAIL">>, <<"GMAIL", "PASS">>, <<"GMAIL", "DOMAIN">>,
     <<"GOOGLE", "USER">>, <<"GOOGLE", "PASS">>,
     <<"Gmail", "USER">>, <<"Gmail", "PASS">>, <<"Gmail", "DOMAIN">>}

\* The loop skips the PASS and DOMAIN variables wherever they stand, so the
\* environments explored list them first, in this order, and the USER and
\* EMAIL variables after them in every order.
OtherKeyOrder ==
    <<<<"GMAIL", "PASS">>, <<"GOOGLE", "PASS">>, <<"Gmail", "PASS">>,
      <<"GMAIL", "DOMAIN">>, <<"Gmail", "DOMAIN">>>>

RankOf(key) == CHOOSE i \in DOMAIN OtherKeyOrder : OtherKeyOrder[i] = key

ValuesFor(key) ==
    CASE key[2] \in {"USER", "EMAIL"} -> IdentityVals
      [] key[2] = "PASS" -> PassVals
      [] OTHER -> DomainVals

(* --------------------------- conftest.py ---------------------------- *)
None == <<>>
Some(v) == <<v>>

\* Path.home()
HOME == <<"home">>

\* Python truthiness of an optional string: None and '' are falsy.
Truthy(o) == o # None /\ o[1] # ""

\* a or b
PyOr(a, b) == IF Truthy(a) THEN a ELSE b

DOMAIN_MAP ==
    [p \in {"GITHUB", "GITLAB", "GMAIL", "GOOGLE", "BITBUCKET", "AZURE", "AWS"} |->
        CASE p = "GITHUB" -> "https://*.github.com"
          [] p = "GITLAB" -> "https://*.gitlab.com"
          [] p = "GMAIL" -> "https://*.google.com"
          [] p = "GOOGLE" -> "https://*.google.com"
          [] p = "BITBUCKET" -> "https://*.bitbucket.org"
          [] p = "AZURE" -> "https://*.azure.com"
          [] p = "AWS" -> "https://*.aws.amazon.com"]

\* DOMAIN_MAP.get(prefix): the lookup is case-sensitive
MapGet(prefix) ==
    IF prefix \in DOMAIN DOMAIN_MAP THEN Some(DOMAIN_MAP[prefix]) ELSE None

EnvKeys == {environ[i][1] : i \in DOMAIN environ}

\* os.getenv(key)
Getenv(key) ==
    IF key \in EnvKeys
    THEN Some(environ[CHOOSE i \in DOMAIN environ : environ[i][1] = key][2])
    ELSE None

\* key.endswith('_USER') or key.endswith('_EMAIL')
IsIdentityKey(key) == key[2] = "USER" \/ key[2] = "EMAIL"

\* key.rsplit('_', 1)[0]
PrefixOf(key) == key[1]

\* mutant: the processed-prefix check is lost
SeenPrefix_Never(prefix) == FALSE

\* prefix in processed_prefixes
SeenPrefix(prefix) == prefix \in processed_prefixes

\* mutant: `is None` in place of `not`
Missing_IsNone(o) == o = None

\* not user_val / not pass_val / not domain
Missing(o) == ~Truthy(o)

\* os.getenv(f'{prefix}_PASS')
PassVal(prefix) == Getenv(<<prefix, "PASS">>)

\* mutant: the table is consulted first
ResolveDomain_MapFirst(prefix) == PyOr(MapGet(prefix), Getenv(<<prefix, "DOMAIN">>))

\* mutant: the table is looked up by the upper-cased prefix
ResolveDomain_AnyCase(prefix) ==
    PyOr(Getenv(<<prefix, "DOMAIN">>), MapGet(IF prefix = "Gmail" THEN "GMAIL" ELSE prefix))

\* os.getenv(domain_key) or DOMAIN_MAP.get(prefix)
ResolveDomain(prefix) == PyOr(Getenv(<<prefix, "DOMAIN">>), MapGet(prefix))

\* mutant: .lower() is forgotten
Lower_Forgotten(prefix) == prefix

\* str.lower on the prefixes in use
Lower(prefix) ==
    CASE prefix = "GMAIL" -> "gmail"
      [] prefix = "Gmail" -> "gmail"
      [] prefix = "GOOGLE" -> "google"
      [] OTHER -> prefix

PlaceholderUser(prefix) == <<Lower(prefix), "user">>
PlaceholderPass(prefix) == <<Lower(prefix), "pass">>

\* {placeholder_user: user_val, placeholder_pass: pass_val}
SubMap(prefix, user_val, pass_val) ==
    [k \in {PlaceholderUser(prefix), PlaceholderPass(prefix)} |->
        IF k = PlaceholderUser(prefix) THEN user_val ELSE pass_val]

\* mutant: credentials.setdefault(domain, sub), the first write wins
Assign_KeepFirst(creds, domain, sub) ==
    [d \in DOMAIN creds \cup {domain} |-> IF d \in DOMAIN creds THEN creds[d] ELSE sub]

\* credentials[domain] = sub
Assign(creds, domain, sub) ==
    [d \in DOMAIN creds \cup {domain} |-> IF d = domain THEN sub ELSE creds[d]]

EmptyDict == [d \in {} |-> {}]

\* no command or test of the profile store is running
ProfileIdle ==
    /\ fs = {<<HOME, "dir">>}
    /\ ppc = "idle"
    /\ url = None
    /\ profile_name = None
    /\ sessions = <<>>
    /\ browser = 0
    /\ calls = <<>>
    /\ output = <<>>
    /\ outcome = "none"

Init ==
    /\ environ = <<>>
    /\ pc = "import"
    /\ idx = 0
    /\ credentials = EmptyDict
    /\ processed_prefixes = {}
    /\ result = None
    /\ ProfileIdle

\* The process environment and load_dotenv('.env.test') fill os.environ, one
\* variable at a time, before any fixture runs; a key keeps its first position.
LoadEnv ==
    /\ pc = "import"
    /\ Len(environ) < MaxEnv
    /\ \E key \in Keys \ EnvKeys : \E v \in ValuesFor(key) :
          /\ IF IsIdentityKey(key)
             THEN TRUE
             ELSE \A i \in DOMAIN environ :
                      /\ ~IsIdentityKey(environ[i][1])
                      /\ RankOf(environ[i][1]) < RankOf(key)
          /\ environ' = Append(environ, <<key, v>>)
    /\ UNCHANGED <<pc, idx, credentials, processed_prefixes, result>>
    /\ UNCHANGED pvars

\* build_sensitive_data is entered: credentials = {}, processed_prefixes = set()
Call ==
    /\ pc = "import"
    /\ pc' = "loop"
    /\ idx' = 1
    /\ credentials' = EmptyDict
    /\ processed_prefixes' = {}
    /\ UNCHANGED <<environ, result>>
    /\ UNCHANGED pvars

InLoop == pc = "loop" /\ idx <= Len(environ)
CurKey == environ[idx][1]
Advance == idx' = idx + 1 /\ pc' = pc

\* line 51-52: not a user/email key
SkipOtherKey ==
    /\ InLoop
    /\ ~IsIdentityKey(CurKey)
    /\ Advance
    /\ UNCHANGED <<environ, credentials, processed_prefixes, result>>
    /\ UNCHANGED pvars

\* line 55-56: prefix already processed
SkipSeenPrefix ==
    /\ InLoop
    /\ IsIdentityKey(CurKey)
    /\ SeenPrefix(PrefixOf(CurKey))
    /\ Advance
    /\ UNCHANGED <<environ, credentials, processed_prefixes, result>>
    /\ UNCHANGED pvars

\* line 57-62: no user value
DropNoUser ==
    /\ InLoop
    /\ IsIdentityKey(CurKey)
    /\ ~SeenPrefix(PrefixOf(CurKey))
    /\ processed_prefixes' = processed_prefixes \cup {PrefixOf(CurKey)}
    /\ Missing(Getenv(CurKey))
    /\ Advance
    /\ UNCHANGED <<environ, credentials, result>>
    /\ UNCHANGED pvars

\* line 64-68: no password
DropNoPass ==
    /\ InLoop
    /\ IsIdentityKey(CurKey)
    /\ ~SeenPrefix(PrefixOf(CurKey))
    /\ processed_prefixes' = processed_prefixes \cup {PrefixOf(CurKey)}
    /\ ~Missing(Getenv(CurKey))
    /\ Missing(PassVal(PrefixOf(CurKey)))
    /\ Advance
    /\ UNCHANGED <<environ, credentials, result>>
    /\ UNCHANGED pvars

\* line 70-75: no domain
DropNoDomain ==
    /\ InLoop
    /\ IsIdentityKey(CurKey)
    /\ ~SeenPrefix(PrefixOf(CurKey))
    /\ processed_prefixes' = processed_prefixes \cup {PrefixOf(CurKey)}
    /\ ~Missing(Getenv(CurKey))
    /\ ~Missing(PassVal(PrefixOf(CurKey)))
    /\ Missing(ResolveDomain(PrefixOf(CurKey)))
    /\ Advance
    /\ UNCHANGED <<environ, credentials, result>>
    /\ UNCHANGED pvars

\* line 77-85: the entry is written
Emit ==
    /\ InLoop
    /\ IsIdentityKey(CurKey)
    /\ ~SeenPrefix(PrefixOf(CurKey))
    /\ processed_prefixes' = processed_prefixes \cup {PrefixOf(CurKey)}
    /\ ~Missing(Getenv(CurKey))
    /\ ~Missing(PassVal(PrefixOf(CurKey)))
    /\ ~Missing(ResolveDomain(PrefixOf(CurKey)))
    /\ credentials' =
          Assign(credentials, ResolveDomain(PrefixOf(CurKey))[1],
                 SubMap(PrefixOf(CurKey), Getenv(CurKey)[1], PassVal(PrefixOf(CurKey))[1]))
    /\ Advance
    /\ UNCHANGED <<environ, result>>
    /\ UNCHANGED pvars

\* line 87: return credentials
Return ==
    /\ pc = "loop"
    /\ idx > Len(environ)
    /\ pc' = "done"
    /\ result' = Some(credentials)
    /\ UNCHANGED <<environ, idx, credentials, processed_prefixes>>
    /\ UNCHANGED pvars

Next ==
    \/ LoadEnv
    \/ Call
    \/ SkipOtherKey
    \/ SkipSeenPrefix
    \/ DropNoUser
    \/ DropNoPass
    \/ DropNoDomain
    \/ Emit
    \/ Return

Spec == Init /\ [][Next]_vars

(* ------------------ vocabulary of the resolver claims --------------- *)
EnvHas(key, v) == \E i \in DOMAIN environ : environ[i] = <<key, v>>
EnvSet(key) == \E i \in DOMAIN environ : environ[i][1] = key
ValOf(key) == environ[CHOOSE i \in DOMAIN environ : environ[i][1] = key][2]
NonEmpty(key) == EnvSet(key) /\ ValOf(key) # ""

\* positions of the USER / EMAIL variables of prefix P, the first of which is processed
IdentityIdx(P) == {i \in DOMAIN environ : environ[i][1] \in {<<P, "USER">>, <<P, "EMAIL">>}}
FirstIdx(P) == CHOOSE i \in IdentityIdx(P) : \A j \in IdentityIdx(P) : i <= j
Identity(P) == environ[FirstIdx(P)][2]

HasCreds(P) == IdentityIdx(P) # {} /\ Identity(P) # "" /\ NonEmpty(<<P, "PASS">>)
Dropped(P) == IdentityIdx(P) # {} /\ (Identity(P) = "" \/ ~NonEmpty(<<P, "PASS">>))
NoDomainSource(P) == ~NonEmpty(<<P, "DOMAIN">>) /\ P \notin DOMAIN DOMAIN_MAP
DomainOf(P) == IF NonEmpty(<<P, "DOMAIN">>) THEN ValOf(<<P, "DOMAIN">>) ELSE DOMAIN_MAP[P]
Resolves(P, d) == HasCreds(P) /\ ~NoDomainSource(P) /\ DomainOf(P) = d
PlaceholdersOf(P) == {<<Lower(P), "user">>, <<Lower(P), "pass">>}
EntryOf(P) ==
    [k \in PlaceholdersOf(P) |-> IF k[2] = "user" THEN Identity(P) ELSE ValOf(<<P, "PASS">>)]

Returned == pc = "done"
Result == result[1]
\* the sub-map under d was written for some prefix other than P
WrittenForAnother(d, P) ==
    \E Q \in PrefixSet \ {P} : Resolves(Q, d) /\ Result[d] = EntryOf(Q)
\* no prefix processed after P resolves to d
LastFor(P, d) ==
    \A Q \in PrefixSet \ {P} : Resolves(Q, d) => FirstIdx(Q) < FirstIdx(P)

(* ------------------------------ C1 ---------------------------------- *)
\* C1 as stated: a prefix P of the environment with neither a non-empty P_DOMAIN nor a DOMAIN_MAP
\* entry has no placeholder lower(P)_user / lower(P)_pass under any domain of
\* the returned mapping.
C1_NoPlaceholderOfUnresolvedPrefix ==
    Returned =>
        \A P \in PrefixSet : (IdentityIdx(P) # {} /\ NoDomainSource(P)) =>
            \A d \in DOMAIN Result : PlaceholdersOf(P) \cap DOMAIN Result[d] = {}

\* C1 amended: for such a P, a sub-map of the returned mapping holds a
\* placeholder lower(P)_user / lower(P)_pass only when it is the entry written
\* for a different prefix Q with the same lower-cased form that does resolve to
\* that domain (it carries Q's values); P itself contributes nothing.
C1_UnresolvedPrefixContributesNothing ==
    Returned =>
        \A P \in PrefixSet : NoDomainSource(P) =>
            \A d \in DOMAIN Result :
                PlaceholdersOf(P) \cap DOMAIN Result[d] # {} =>
                    \E Q \in PrefixSet \ {P} :
                        /\ Lower(Q) = Lower(P)
                        /\ Resolves(Q, d)
                        /\ Result[d] = EntryOf(Q)

\* Gmail has a user and a password but no domain; GOOGLE is emitted, Gmail is not
C1_Witness ==
    /\ Returned
    /\ HasCreds("Gmail")
    /\ NoDomainSource("Gmail")
    /\ Resolves("GOOGLE", "https://*.google.com")
    /\ DOMAIN Result = {"https://*.google.com"}
    /\ Result["https://*.google.com"] = EntryOf("GOOGLE")

(* ------------------------------ C2 ---------------------------------- *)
\* the claim's own lower-casing of the table prefixes in use
C2_Lowered(P) == CASE P = "GMAIL" -> "gmail" [] P = "GOOGLE" -> "google"

C2_Pre(P, u, p) ==
    /\ u # "" /\ p # ""
    /\ EnvHas(<<P, "USER">>, u)
    /\ EnvHas(<<P, "PASS">>, p)
    /\ ~EnvSet(<<P, "DOMAIN">>)
    /\ \A k \in EnvKeys \ {<<P, "USER">>} : k[2] \notin {"USER", "EMAIL"}

\* C2: with FOO_USER=u, FOO_PASS=p non-empty, no FOO_DOMAIN, no other _USER or
\* _EMAIL key, and FOO in the table with domain D, the returned mapping is
\* exactly {D: {foo_user: u, foo_pass: p}}.
C2_SingleTablePrefix ==
    Returned =>
        \A P \in PrefixSet \cap DOMAIN DOMAIN_MAP : \A u \in IdentityVals, p \in PassVals :
            C2_Pre(P, u, p) =>
                Result = [d \in {DOMAIN_MAP[P]} |->
                            [k \in {<<C2_Lowered(P), "user">>, <<C2_Lowered(P), "pass">>} |->
                                IF k[2] = "user" THEN u ELSE p]]

C2_Witness ==
    /\ Returned
    /\ C2_Pre("GMAIL", "alice", "pw")
    /\ DOMAIN Result = {"https://*.google.com"}

(* ------------------------------ C3 ---------------------------------- *)
\* the iteration over a key of a dropped prefix writes nothing and the loop goes on
C3_Step ==
    (InLoop /\ IsIdentityKey(CurKey) /\ Dropped(PrefixOf(CurKey)))
        => (credentials' = credentials /\ pc' = "loop")

\* C3: a prefix whose P_PASS is absent or empty, or whose processed identity
\* value is empty, raises no error and gets no entry: processing its keys
\* leaves the mapping as it was, any sub-map that shows its placeholders in the
\* returned mapping is the entry of another prefix, and when every prefix of
\* the environment is such a prefix the returned mapping is empty.
C3_IncompletePrefixDropped ==
    /\ [](Returned =>
            /\ \A P \in PrefixSet : Dropped(P) =>
                  \A d \in DOMAIN Result :
                      PlaceholdersOf(P) \cap DOMAIN Result[d] # {} => WrittenForAnother(d, P)
            /\ (\A P \in PrefixSet : IdentityIdx(P) # {} => Dropped(P)) => Result = EmptyDict)
    /\ [][C3_Step]_vars

\* FOO_USER set, FOO_PASS omitted, no other credentials: the empty mapping
C3_Witness ==
    /\ Returned
    /\ EnvHas(<<"GMAIL", "USER">>, "alice")
    /\ ~EnvSet(<<"GMAIL", "PASS">>)
    /\ \A P \in PrefixSet \ {"GMAIL"} : IdentityIdx(P) = {}
    /\ Result = EmptyDict

(* ------------------------------ C4 ---------------------------------- *)
Overridden(P) == HasCreds(P) /\ NonEmpty(<<P, "DOMAIN">>)

\* the step that processes an overridden prefix writes its entry under the
\* override and touches no other domain key
C4_Step ==
    (InLoop /\ IsIdentityKey(CurKey) /\ idx = FirstIdx(PrefixOf(CurKey))
            /\ Overridden(PrefixOf(CurKey)))
        => LET P == PrefixOf(CurKey)
               X == ValOf(<<P, "DOMAIN">>)
           IN  /\ DOMAIN credentials' = DOMAIN credentials \cup {X}
               /\ credentials'[X] = EntryOf(P)
               /\ \A d \in DOMAIN credentials \ {X} : credentials'[d] = credentials[d]

\* C4: a prefix with non-empty identity and password and FOO_DOMAIN = X is
\* emitted under X, in the table or not: X is a key of the returned mapping and
\* holds FOO's entry unless a prefix processed later resolves to X too, and any
\* other key of the mapping, the table's domain for FOO included, holds the
\* entry of another prefix.
C4_OverrideTakesPrecedence ==
    /\ [](Returned =>
            \A P \in PrefixSet : Overridden(P) =>
                LET X == ValOf(<<P, "DOMAIN">>)
                IN  /\ X \in DOMAIN Result
                    /\ LastFor(P, X) => Result[X] = EntryOf(P)
                    /\ \A d \in DOMAIN Result \ {X} : WrittenForAnother(d, P))
    /\ [][C4_Step]_vars

\* GMAIL is in the table under google.com and is emitted under myapp.test only
C4_Witness ==
    /\ Returned
    /\ Overridden("GMAIL")
    /\ ValOf(<<"GMAIL", "DOMAIN">>) = "https://myapp.test"
    /\ DOMAIN Result = {"https://myapp.test"}
    /\ Result["https://myapp.test"] = EntryOf("GMAIL")

(* ------------------------------ C8 ---------------------------------- *)
\* C8: when two prefixes with non-empty identity and password resolve to the
\* same domain, the sub-map of that domain is the entry of the one processed
\* later (the last one, when more than two do), and the earlier one's
\* placeholders are gone from it unless the later prefix has the same ones.
C8_LastWriteWins ==
    Returned =>
        \A A, B \in PrefixSet : \A d \in DomainVals :
            (A # B /\ d # "" /\ Resolves(A, d) /\ Resolves(B, d)
                   /\ FirstIdx(A) < FirstIdx(B) /\ LastFor(B, d))
                => /\ d \in DOMAIN Result
                   /\ Result[d] = EntryOf(B)
                   /\ Lower(A) # Lower(B) => PlaceholdersOf(A) \cap DOMAIN Result[d] = {}

\* GMAIL then GOOGLE, both under google.com through the table
C8_Witness ==
    /\ Returned
    /\ Resolves("GMAIL", "https://*.google.com")
    /\ Resolves("GOOGLE", "https://*.google.com")
    /\ FirstIdx("GMAIL") < FirstIdx("GOOGLE")
    /\ Result["https://*.google.com"] = EntryOf("GOOGLE")

(* ------------------------------ C9 ---------------------------------- *)
\* the mapping changes only in the iteration over the first identity key of a
\* prefix, which writes that key's value; the iteration over a later identity
\* key of the prefix, or over a first one that is empty, changes nothing
C9_Step ==
    InLoop =>
        /\ credentials' # credentials =>
              /\ IsIdentityKey(CurKey)
              /\ idx = FirstIdx(PrefixOf(CurKey))
              /\ \E d \in DOMAIN credentials' :
                    /\ \A e \in DOMAIN credentials \ {d} : credentials'[e] = credentials[e]
                    /\ <<Lower(PrefixOf(CurKey)), "user">> \in DOMAIN credentials'[d]
                    /\ credentials'[d][<<Lower(PrefixOf(CurKey)), "user">>] = environ[idx][2]
        /\ (IsIdentityKey(CurKey) /\ idx # FirstIdx(PrefixOf(CurKey)))
              => UNCHANGED <<credentials, processed_prefixes>>
        /\ (IsIdentityKey(CurKey) /\ environ[idx][2] = "") => credentials' = credentials

\* C9: each prefix is processed once; with P_USER and P_EMAIL both set only
\* the first enumerated is the identity and the other never contributes; an
\* empty first one drops the prefix whatever the other holds.
C9_PrefixProcessedOnce ==
    /\ [](Returned =>
            \A P \in PrefixSet :
                (IdentityIdx(P) # {} /\ \A k \in EnvKeys : k[1] = P) =>
                    /\ Identity(P) = "" => Result = EmptyDict
                    /\ \A d \in DOMAIN Result : Result[d] = EntryOf(P))
    /\ [][C9_Step]_vars

\* GMAIL_EMAIL=bob is enumerated before GMAIL_USER=alice: bob is the identity
C9_Witness ==
    /\ Returned
    /\ EnvHas(<<"GMAIL", "USER">>, "alice")
    /\ EnvHas(<<"GMAIL", "EMAIL">>, "bob")
    /\ FirstIdx("GMAIL") = CHOOSE i \in DOMAIN environ : environ[i][1] = <<"GMAIL", "EMAIL">>
    /\ DOMAIN Result = {"https://*.google.com"}
    /\ Result["https://*.google.com"] = EntryOf("GMAIL")
    /\ Identity("GMAIL") = "bob"

(* ------------------- profile store and browser ---------------------- *)
\* Browser(...) objects ever made
MaxSessions == 2

ProfileNames == {"github-2fa", "github-profile", "staging"}
\* lexicographic order of the directory entries in use
NameOrder == <<"github-2fa", "github-profile", "notes.txt", "staging">>
HeadlessVals == {None, Some("TRUE"), Some("false")}

\* setup_profile.py: PROFILES_DIR = Path.home() / '.browser-use-profiles'
PROFILES_DIR == Append(HOME, ".browser-use-profiles")

\* conftest.py: get_profile_path
get_profile_path(name) == Append(Append(HOME, ".browser-use-profiles"), name)

\* mutant: the existence check is lost
Exists_Always(path) == TRUE

\* Path.exists()
Exists(path) == \E kind \in {"dir", "file"} : <<path, kind>> \in fs

\* Path.is_dir()
IsDir(path) == <<path, "dir">> \in fs

\* mutant: mkdir without parents=True makes nothing under a missing root
Mkdir_NoParents(f, path) ==
    IF <<SubSeq(path, 1, Len(path) - 1), "dir">> \in f THEN f \cup {<<path, "dir">>} ELSE f

\* Path.mkdir(parents=True, exist_ok=True): the directory and its missing
\* parents; nothing changes for the ones that are there.
Mkdir(f, path) ==
    f \cup {<<SubSeq(path, 1, n), "dir">> : n \in Len(HOME)..Len(path)}

\* profile_dir = PROFILES_DIR / profile_name
ProfileDir(name) == Append(PROFILES_DIR, name)

\* File systems a run may start from: the profiles root absent, or present
\* with some profiles and possibly one regular file that is no profile.
FileSystems ==
    {{<<HOME, "dir">>}} \cup
    {{<<HOME, "dir">>, <<PROFILES_DIR, "dir">>}
        \cup {<<Append(PROFILES_DIR, n), "dir">> : n \in D}
        \cup (IF withFile THEN {<<Append(PROFILES_DIR, "notes.txt"), "file">>} ELSE {})
      : D \in SUBSET ProfileNames, withFile \in BOOLEAN}

SERVICE_URLS ==
    [sv \in {"github", "gitlab", "google", "gmail", "bitbucket", "azure", "aws"} |->
        CASE sv = "github" -> "https://github.com/login"
          [] sv = "gitlab" -> "https://gitlab.com/users/sign_in"
          [] sv = "google" -> "https://accounts.google.com"
          [] sv = "gmail" -> "https://accounts.google.com"
          [] sv = "bitbucket" -> "https://bitbucket.org/account/signin/"
          [] sv = "azure" -> "https://portal.azure.com"
          [] sv = "aws" -> "https://console.aws.amazon.com"]

\* command lines of setup_profile.py
ServiceArgs == {None, Some("github")}
UrlArgs == {None, Some(""), Some("https://staging.example.com")}
NameArgs == {None, Some("github-2fa"), Some("staging")}

\* main: url = args.url; if not url and args.service: url = SERVICE_URLS[args.service]
MainUrl(urlArg, service) ==
    IF ~Truthy(urlArg) /\ Truthy(service) THEN Some(SERVICE_URLS[service[1]]) ELSE urlArg

\* f"{args.service}-profile"
ServiceProfileName(sv) == CASE sv = "github" -> "github-profile" [] OTHER -> sv

\* main: profile_name = args.profile_name, or the service's default
MainName(nameArg, service) ==
    IF ~Truthy(nameArg) /\ Truthy(service)
    THEN Some(ServiceProfileName(service[1]))
    ELSE nameArg

\* parser.error(...) is reached
MainRejects(urlArg, nameArg, service) ==
    ~Truthy(MainUrl(urlArg, service)) \/ ~Truthy(MainName(nameArg, service))

RankOfName(n) == CHOOSE i \in DOMAIN NameOrder : NameOrder[i] = n

\* sorted(profiles), by name
SortedNames(S) ==
    CHOOSE sq \in [1..Cardinality(S) -> S] :
        \A i, j \in 1..Cardinality(S) : i < j => RankOfName(sq[i]) < RankOfName(sq[j])

\* PROFILES_DIR.iterdir(), kept when p.is_dir()
ProfileDirsOf(f) ==
    {e[1][Len(e[1])] : e \in {x \in f : /\ x[2] = "dir"
                                        /\ Len(x[1]) = Len(PROFILES_DIR) + 1
                                        /\ SubSeq(x[1], 1, Len(PROFILES_DIR)) = PROFILES_DIR}}

\* what list_profiles prints
list_profiles ==
    IF ~Exists(PROFILES_DIR) THEN <<<<"No profiles directory found.">>>>
    ELSE IF ProfileDirsOf(fs) = {} THEN <<<<"No profiles found.">>>>
    ELSE <<<<"Profiles in", PROFILES_DIR>>>> \o
         [i \in 1..Cardinality(ProfileDirsOf(fs)) |-> <<"  - ", SortedNames(ProfileDirsOf(fs))[i]>>]

\* str.lower on the values of HEADLESS in use
LowerValue(v) == CASE v = "TRUE" -> "true" [] OTHER -> v

\* os.getenv('HEADLESS', 'true').lower() == 'true'
Headless ==
    LowerValue(IF Getenv(<<"HEADLESS">>) = None THEN "true" ELSE Getenv(<<"HEADLESS">>)[1]) = "true"

\* Browser(headless=..., user_data_dir=...)
NewSession(headless, dir) == [headless |-> headless, user_data_dir |-> dir, open |-> TRUE]

\* browser.close()
CloseSession(ss, b) == [ss EXCEPT ![b].open = FALSE]

ProfileInit ==
    /\ environ \in {<<>>} \cup {<<<<<<"HEADLESS">>, v[1]>>>> : v \in HeadlessVals \ {None}}
    /\ pc = "import"
    /\ idx = 0
    /\ credentials = EmptyDict
    /\ processed_prefixes = {}
    /\ result = None
    /\ fs \in FileSystems
    /\ ppc = "idle"
    /\ url = None
    /\ profile_name = None
    /\ sessions = <<>>
    /\ browser = 0
    /\ calls = <<>>
    /\ output = <<>>
    /\ outcome = "none"

rvars == <<environ, pc, idx, credentials, processed_prefixes, result>>

\* a command or a test starts
Start ==
    /\ ppc = "idle"
    /\ browser' = 0
    /\ calls' = <<>>

\* main with --list: list_profiles, and nothing else
MainList ==
    /\ Start
    /\ output' = list_profiles
    /\ outcome' = "listed"
    /\ UNCHANGED <<fs, ppc, url, profile_name, sessions>>
    /\ UNCHANGED rvars

\* main: parser.error, before any I/O
MainUsageError ==
    /\ Start
    /\ \E urlArg \in UrlArgs, nameArg \in NameArgs, service \in ServiceArgs :
          MainRejects(urlArg, nameArg, service)
    /\ output' = <<>>
    /\ outcome' = "usage_error"
    /\ UNCHANGED <<fs, ppc, url, profile_name, sessions>>
    /\ UNCHANGED rvars

\* main: asyncio.run(setup_profile(url, profile_name))
MainSetup ==
    /\ Start
    /\ Len(sessions) < MaxSessions
    /\ \E urlArg \in UrlArgs, nameArg \in NameArgs, service \in ServiceArgs :
          /\ ~MainRejects(urlArg, nameArg, service)
          /\ url' = MainUrl(urlArg, service)
          /\ profile_name' = MainName(nameArg, service)
    /\ ppc' = "s_import"
    /\ output' = <<>>
    /\ outcome' = "running"
    /\ UNCHANGED <<fs, sessions>>
    /\ UNCHANGED rvars

\* setup_profile line 60-64: ImportError
SetupNotInstalled ==
    /\ ppc = "s_import"
    /\ ppc' = "idle"
    /\ output' = Append(output, <<"Error: browser-use not installed. Run: uv add browser-use">>)
    /\ outcome' = "not_installed"
    /\ UNCHANGED <<fs, url, profile_name, sessions, browser, calls>>
    /\ UNCHANGED rvars

\* setup_profile line 66-77: the directory is made, the instructions printed
SetupMkdir ==
    /\ ppc = "s_import"
    /\ fs' = Mkdir(fs, ProfileDir(profile_name[1]))
    /\ calls' = Append(calls, "mkdir")
    /\ output' = Append(output, <<"Setting up profile:", profile_name[1]>>)
    /\ ppc' = "s_browser"
    /\ UNCHANGED <<url, profile_name, sessions, browser, outcome>>
    /\ UNCHANGED rvars

\* setup_profile line 79-82
SetupBrowser ==
    /\ ppc = "s_browser"
    /\ sessions' = Append(sessions, NewSession(FALSE, Some(ProfileDir(profile_name[1]))))
    /\ browser' = Len(sessions) + 1
    /\ calls' = Append(calls, "Browser")
    /\ ppc' = "s_new_context"
    /\ UNCHANGED <<fs, url, profile_name, output, outcome>>
    /\ UNCHANGED rvars

\* mutant: the wait for the operator comes before the navigation
SetupOrder_WaitFirst == <<"s_new_context", "s_new_page", "s_input", "s_goto", "s_close">>

\* the awaits of line 84-86 and the input() of line 88, in program order
SetupOrder == <<"s_new_context", "s_new_page", "s_goto", "s_input", "s_close">>
SetupCallAt(p) ==
    CASE p = "s_new_context" -> "new_context"
      [] p = "s_new_page" -> "new_page"
      [] p = "s_goto" -> "goto"
      [] p = "s_input" -> "input"
AfterPc(p) == SetupOrder[(CHOOSE i \in DOMAIN SetupOrder : SetupOrder[i] = p) + 1]

\* line 84-88: the call at hand returns (for input(): the operator pressed Enter)
SetupAwait ==
    /\ ppc \in {"s_new_context", "s_new_page", "s_goto", "s_input"}
    /\ calls' = Append(calls, SetupCallAt(ppc))
    /\ ppc' = AfterPc(ppc)
    /\ UNCHANGED <<fs, url, profile_name, sessions, browser, output, outcome>>
    /\ UNCHANGED rvars

\* line 84-88: the call at hand raises (for input(): EOFError, KeyboardInterrupt);
\* nothing catches it, setup_profile and asyncio.run are left
SetupRaises ==
    /\ ppc \in {"s_new_context", "s_new_page", "s_goto", "s_input"}
    /\ ppc' = "idle"
    /\ outcome' = "raised"
    /\ UNCHANGED <<fs, url, profile_name, sessions, browser, calls, output>>
    /\ UNCHANGED rvars

\* line 90-94
SetupClose ==
    /\ ppc = "s_close"
    /\ sessions' = CloseSession(sessions, browser)
    /\ calls' = Append(calls, "close")
    /\ output' = Append(output, <<"Profile saved to:", ProfileDir(profile_name[1])>>)
    /\ outcome' = "saved"
    /\ ppc' = "idle"
    /\ UNCHANGED <<fs, url, profile_name, browser>>
    /\ UNCHANGED rvars

\* fixture browser, up to the yield
FixtureBrowser ==
    /\ ppc = "idle"
    /\ Len(sessions) < MaxSessions
    /\ sessions' = Append(sessions, NewSession(Headless, None))
    /\ browser' = Len(sessions) + 1
    /\ calls' = <<"Browser">>
    /\ ppc' = "test"
    /\ output' = <<>>
    /\ outcome' = "running"
    /\ UNCHANGED <<fs, url, profile_name>>
    /\ UNCHANGED rvars

\* fixture browser_with_profile, line 124-128: pytest.skip
FixtureProfileSkip ==
    /\ Start
    /\ \E name \in ProfileNames :
          /\ profile_name' = Some(name)
          /\ ~Exists(get_profile_path(name))
    /\ outcome' = "skipped"
    /\ output' = <<>>
    /\ UNCHANGED <<fs, ppc, url, sessions>>
    /\ UNCHANGED rvars

\* fixture browser_with_profile, line 124-134: up to the yield
FixtureProfile ==
    /\ ppc = "idle"
    /\ Len(sessions) < MaxSessions
    /\ \E name \in ProfileNames :
          /\ profile_name' = Some(name)
          /\ Exists(get_profile_path(name))
          /\ sessions' = Append(sessions, NewSession(FALSE, Some(get_profile_path(name))))
    /\ browser' = Len(sessions) + 1
    /\ calls' = <<"Browser">>
    /\ ppc' = "test"
    /\ output' = <<>>
    /\ outcome' = "running"
    /\ UNCHANGED <<fs, url>>
    /\ UNCHANGED rvars

\* the test that uses the fixture passes
TestPasses ==
    /\ ppc = "test"
    /\ outcome' = "passed"
    /\ ppc' = "teardown"
    /\ UNCHANGED <<fs, url, profile_name, sessions, browser, calls, output>>
    /\ UNCHANGED rvars

\* the test that uses the fixture fails
TestFails ==
    /\ ppc = "test"
    /\ outcome' = "failed"
    /\ ppc' = "teardown"
    /\ UNCHANGED <<fs, url, profile_name, sessions, browser, calls, output>>
    /\ UNCHANGED rvars

\* either fixture after the yield: await browser.close()
FixtureTeardown ==
    /\ ppc = "teardown"
    /\ sessions' = CloseSession(sessions, browser)
    /\ calls' = Append(calls, "close")
    /\ ppc' = "idle"
    /\ UNCHANGED <<fs, url, profile_name, browser, output, outcome>>
    /\ UNCHANGED rvars

ProfileNext ==
    \/ MainList
    \/ MainUsageError
    \/ MainSetup
    \/ SetupNotInstalled
    \/ SetupMkdir
    \/ SetupBrowser
    \/ SetupAwait
    \/ SetupRaises
    \/ SetupClose
    \/ FixtureBrowser
    \/ FixtureProfileSkip
    \/ FixtureProfile
    \/ TestPasses
    \/ TestFails
    \/ FixtureTeardown

ProfileSpec == ProfileInit /\ [][ProfileNext]_vars

(* --------------- vocabulary of the profile store claims ------------- *)
\* the directory of profile n, spelled out
DirOf(n) == <<"home", ".browser-use-profiles", n>>
DirExists(n) == <<DirOf(n), "dir">> \in fs
Pos(c) == IF \E i \in DOMAIN calls : calls[i] = c
          THEN CHOOSE i \in DOMAIN calls : calls[i] = c
          ELSE 0
Called(c) == Pos(c) > 0

(* ------------------------------ C5 ---------------------------------- *)
\* C5: every session that was acquired is closed once the command or test
\* that acquired it is over, however it ended (a failing test, a failing
\* new_context, new_page, goto or wait).
C5_EverySessionClosedOnExit ==
    ppc = "idle" => \A i \in DOMAIN sessions : ~sessions[i].open

(* ------------------------------ C6 ---------------------------------- *)
\* a request for browser_with_profile: skip and nothing else when the
\* directory is absent, a session bound to the directory when it is there
C6_Step ==
    (FixtureProfileSkip \/ FixtureProfile) =>
        IF ~DirExists(profile_name'[1])
        THEN /\ outcome' = "skipped"
             /\ ppc' = "idle"
             /\ sessions' = sessions
             /\ fs' = fs
        ELSE /\ outcome' # "skipped"
             /\ sessions' = Append(sessions,
                    [headless |-> FALSE, user_data_dir |-> Some(DirOf(profile_name'[1])),
                     open |-> TRUE])

C7_Step ==
    SetupMkdir =>
        /\ (Exists(get_profile_path(profile_name[1])))'
        /\ ProfileDir(profile_name[1]) = get_profile_path(profile_name[1])
        /\ ppc' = "s_browser"
        /\ DirExists(profile_name[1]) => fs' = fs

\* C7: after the creation step for a name the existence check on that name is
\* true; a second creation raises nothing, yields the same path and leaves the
\* store as it is; no operation removes a profile directory.
C7_EnsureCreated ==
    /\ [][C7_Step]_vars
    /\ [][fs \subseteq fs']_vars

\* setup_profile has made the directory of a profile that an earlier run had
\* already made and used
C7_Witness ==
    /\ ppc = "s_browser"
    /\ calls = <<"mkdir">>
    /\ profile_name = Some("github-profile")
    /\ Len(sessions) = 1
    /\ sessions[1].user_data_dir = Some(DirOf("github-profile"))
    /\ ~sessions[1].open
    /\ DirExists("github-profile")

(* ------------------------------ C10 --------------------------------- *)
\* the running or last operation is a setup_profile that got to its mkdir
InSetup == calls # <<>> /\ calls[1] = "mkdir"

\* the wait is left by the acknowledgment, or by an error that closes and
\* reports nothing; the session is made for a directory that exists
C10_Step ==
    /\ ppc = "s_input" =>
          \/ (ppc' = "s_close" /\ calls' = Append(calls, "input") /\ sessions' = sessions)
          \/ (ppc' = "idle" /\ outcome' = "raised" /\ sessions' = sessions /\ output' = output)
    /\ SetupBrowser => DirExists(profile_name[1])

\* C10: in a run of setup_profile the directory is made before the session
\* bound to it is acquired, the session is acquired before the navigation, the
\* navigation comes before the wait, and the close and the 'Profile saved'
\* report come only after the acknowledgment.
C10_SetupOrder ==
    /\ [](InSetup =>
            /\ Called("Browser") =>
                  /\ Pos("mkdir") < Pos("Browser")
                  /\ browser # 0
                  /\ sessions[browser].user_data_dir = Some(DirOf(profile_name[1]))
                  /\ DirExists(profile_name[1])
            /\ Called("goto") => Called("Browser") /\ Pos("Browser") < Pos("goto")
            /\ Called("input") => Called("goto") /\ Pos("goto") < Pos("input")
            /\ Called("close") => Called("input") /\ Pos("input") < Pos("close")
            /\ (browser # 0 /\ ~sessions[browser].open) => Called("input")
            /\ (\E i \in DOMAIN output : output[i][1] = "Profile saved to:") => Called("input")
            /\ ~Called("input") => ppc \in {"s_browser", "s_new_context", "s_new_page",
                                            "s_goto", "s_input", "idle"})
    /\ [][C10_Step]_vars

\* a complete run: made, acquired, navigated, acknowledged, closed, reported
C10_Witness ==
    /\ ppc = "idle"
    /\ outcome = "saved"
    /\ calls = <<"mkdir", "Browser", "new_context", "new_page", "goto", "input", "close">>
    /\ ~sessions[browser].open

====
